---- MODULE Spec2Model ----
(***************************************************************************)
(* CodePulse measurement orchestration: the adapter registry               *)
(* (adapter/registry.ts) and the orchestrator's measure()                  *)
(* (orchestration/orchestrator.ts), modelled at the granularity of the     *)
(* JavaScript event loop: one action per synchronous segment between two   *)
(* awaits.  Adapters are the external collaborators of adapter/adapter.ts: *)
(* checkAvailability() answers with the adapter's availability, and        *)
(* measure(targetPath, axisId) answers with a Result that is either an     *)
(* AxisMeasurement for axisId or an AdapterError.                          *)
(***************************************************************************)
EXTENDS Integers, Sequences, FiniteSets, TLC

\* ------------------------------------------------------------------ bounds
\* How many entries of the AXES table the model knows.
NumAxes == 3
\* How many distinct adapter ids exist (and so the longest registry).
MaxAdapters == 2
\* Longest explicit config.axes list.
MaxReq == 2

\* Report transforms: axes of a report, files of a report (all axes together),
\* metrics of a file, largest metric value.
MaxReportAxes == 2

MaxFiles == 3

MaxMetrics == 1

MaxValue == 2

\* ------------------------------------------------------------- types/axis
AllAxisIds ==
  << "complexity", "duplication", "dead-code", "size", "dependency-health",
     "security", "consistency", "test-coverage", "documentation" >>

\* [...AXES.keys()]: the canonical order of the AXES table.
AXES == SubSeq(AllAxisIds, 1, NumAxes)

AxisId == { AXES[i] : i \in 1..Len(AXES) }

AllAdapterIds == << "tool-a", "tool-b", "tool-c", "tool-d" >>

AdapterIds == { AllAdapterIds[i] : i \in 1..MaxAdapters }

\* A ToolAdapter: its id, the axes it supports, and what its
\* checkAvailability() answers (the stub adapters' `available` option).
ToolAdapter ==
  [ id : AdapterIds, supportedAxes : (SUBSET AxisId) \ {{}}, available : BOOLEAN ]

\* config.axes: an explicit list of axes, or empty.
RECURSIVE SeqsUpTo(_, _)
SeqsUpTo(S, n) ==
  IF n = 0 THEN { <<>> }
  ELSE LET shorter == SeqsUpTo(S, n - 1)
       IN  shorter \cup { Append(s, x) : s \in { t \in shorter : Len(t) = n - 1 }, x \in S }

MeasurementConfig == [ targetPath : {"/project"}, axes : SeqsUpTo(AxisId, MaxReq) ]

FIXED_TIMESTAMP == "2025-01-01T00:00:00.000Z"

\* ------------------------------------------------------------- helpers
Range(s) == { s[i] : i \in 1..Len(s) }

RECURSIVE SelectIdx(_, _, _)
\* Indices i of s, ascending from k, with s[i] \in S.
SelectIdx(s, S, k) ==
  IF k > Len(s) THEN <<>>
  ELSE IF s[k] \in S THEN <<k>> \o SelectIdx(s, S, k + 1)
  ELSE SelectIdx(s, S, k + 1)

\* Array.prototype.join over string tokens: the elements separated by sep.
RECURSIVE Join(_, _)
Join(s, sep) ==
  IF Len(s) = 0 THEN <<>>
  ELSE IF Len(s) = 1 THEN << s[1] >>
  ELSE << s[1], sep >> \o Join(Tail(s), sep)

\* ----------------------------------------------------------------- state
VARIABLES
  adapters,       \* AdapterRegistry.adapters: the Map, as its entries in insertion order
  threw,          \* whether the last register() call threw
  pc,             \* where measure() is: idle, probing, resolved, measuring, done
  config,         \* the config measure() was called with
  requestedAxes,  \* measure: requestedAxes
  axisIdx,        \* resolveAdapters: position of the outer loop in axes
  candIdx,        \* resolveAdapters: position of the inner loop in adapters
  resolved,       \* resolveAdapters: the Map axis -> adapter, as entries in insertion order
  unavailable,    \* resolveAdapters: unavailable
  entries,        \* measure: entries
  results,        \* measure: per entry, <<>> while its promise is pending, <<result>> after
  started,        \* measure: the entries whose adapter.measure call has been made
  log,            \* history: adapter calls started and completed, in order
  returned,       \* <<>> until measure() returns, then <<its Result>>
  first,          \* <<>> during the first measure() call; during a second call with
                  \* the same arguments, << what the first call returned and did >>
  lastCall,       \* registry client: <<>>, or << the argument of the last register() >>
  accepted,       \* registry client: the adapters whose register() did not throw
  tReport,        \* transform client: the report it holds
  tLast,          \* transform client: <<>>, or << the last transform call >>
  tOrig,          \* transform client: the report as measure() produced it
  tHeld           \* transform client: what the object measure() produced holds now

vars ==
  << adapters, threw, pc, config, requestedAxes, axisIdx, candIdx, resolved,
     unavailable, entries, results, started, log, returned, first,
     lastCall, accepted, tReport, tLast, tOrig, tHeld >>

\* What the clients of the registry and of the report transforms hold.
offstage == << lastCall, accepted, tReport, tLast, tOrig, tHeld >>

runVars ==
  << config, requestedAxes, axisIdx, candIdx, resolved, unavailable, entries,
     results, started, log, returned, first >>

\* ------------------------------------------------------ adapter/registry
has(id) == \E i \in 1..Len(adapters) : adapters[i].id = id

\* Variant: the matching adapters are returned newest first.
getAdaptersForAxisNewestFirst(axisId) ==
  LET RECURSIVE Matching(_)
      Matching(k) ==
        IF k > Len(adapters) THEN <<>>
        ELSE IF axisId \in adapters[k].supportedAxes
             THEN Matching(k + 1) \o << adapters[k] >>
             ELSE Matching(k + 1)
  IN  Matching(1)

getAdaptersForAxis(axisId) ==
  LET RECURSIVE Matching(_)
      Matching(k) ==
        IF k > Len(adapters) THEN <<>>
        ELSE IF axisId \in adapters[k].supportedAxes
             THEN << adapters[k] >> \o Matching(k + 1)
             ELSE Matching(k + 1)
  IN  Matching(1)

\* Variant: the ids are listed in alphabetical order.
getRegisteredIdsSorted ==
  LET idx == SelectIdx(AllAdapterIds, { adapters[i].id : i \in 1..Len(adapters) }, 1)
  IN  [ k \in 1..Len(idx) |-> AllAdapterIds[idx[k]] ]

getRegisteredIds == [ i \in 1..Len(adapters) |-> adapters[i].id ]

\* getAdapter(id): << the adapter >>, or <<>> for undefined.
getAdapter(id) ==
  IF \E i \in 1..Len(adapters) : adapters[i].id = id
  THEN << adapters[CHOOSE i \in 1..Len(adapters) : adapters[i].id = id] >>
  ELSE <<>>

\* Variant: a duplicate id throws, but only after the Map entry was replaced.
registerOverwrite(adapter) ==
  /\ pc = "idle"
  /\ IF has(adapter.id)
     THEN /\ threw' = TRUE
          /\ adapters' = [ i \in 1..Len(adapters) |->
                             IF adapters[i].id = adapter.id THEN adapter ELSE adapters[i] ]
     ELSE /\ threw' = FALSE
          /\ adapters' = Append(adapters, adapter)
  /\ UNCHANGED << pc, runVars >>

\* register(adapter): throws on a duplicate id, else adapters.set(id, adapter).
register(adapter) ==
  /\ pc = "idle"
  /\ IF has(adapter.id)
     THEN /\ threw' = TRUE
          /\ UNCHANGED adapters
     ELSE /\ threw' = FALSE
          /\ adapters' = Append(adapters, adapter)
  /\ UNCHANGED << pc, runVars >>

\* ---------------------------------------------------------- orchestrator
ok(value) == [ ok |-> TRUE, value |-> value ]

err(error) == [ ok |-> FALSE, error |-> error ]

\* Variant: an empty list is processed as it is, with no fallback to all axes.
resolveRequestedAxesAsGiven(cfg) == cfg.axes

\* Variant: every known axis is processed, whatever the config lists.
resolveRequestedAxesAll(cfg) == AXES

\* Variant: the listed axes are processed in the canonical order of the table.
resolveRequestedAxesCanonical(cfg) ==
  IF Len(cfg.axes) > 0
  THEN LET idx == SelectIdx(AXES, { cfg.axes[i] : i \in 1..Len(cfg.axes) }, 1)
       IN  [ k \in 1..Len(idx) |-> AXES[idx[k]] ]
  ELSE AXES

resolveRequestedAxes(cfg) ==
  IF Len(cfg.axes) > 0 THEN cfg.axes ELSE AXES

\* Variant: an array of pairs instead of a Map, a repeated key is appended.
MapSetAppend(m, key, value) == Append(m, << key, value >>)

\* Map.prototype.set on a Map kept as its entries in insertion order: an
\* existing key keeps its position and gets the new value.
MapSet(m, key, value) ==
  IF \E i \in 1..Len(m) : m[i][1] = key
  THEN [ i \in 1..Len(m) |-> IF m[i][1] = key THEN << key, value >> ELSE m[i] ]
  ELSE Append(m, << key, value >>)

\* Variant: only the first candidate of an axis is ever probed (no fallback).
RECURSIVE ResolveFromNoFallback(_, _, _, _)
ResolveFromNoFallback(axes, i, j, unav) ==
  IF i > Len(axes)
  THEN [ pc |-> "resolved", i |-> i, j |-> j, unavailable |-> unav ]
  ELSE IF j = 1 /\ j <= Len(getAdaptersForAxis(axes[i]))
       THEN [ pc |-> "probing", i |-> i, j |-> j, unavailable |-> unav ]
       ELSE ResolveFromNoFallback(axes, i + 1, 1, Append(unav, axes[i]))

\* The loops of resolveAdapters, run from outer position i and inner
\* position j up to the next `await adapter.checkAvailability()` or to the
\* function's return.  An axis whose candidates are exhausted is pushed to
\* unavailable.
RECURSIVE ResolveFrom(_, _, _, _)
ResolveFrom(axes, i, j, unav) ==
  IF i > Len(axes)
  THEN [ pc |-> "resolved", i |-> i, j |-> j, unavailable |-> unav ]
  ELSE IF j <= Len(getAdaptersForAxis(axes[i]))
       THEN [ pc |-> "probing", i |-> i, j |-> j, unavailable |-> unav ]
       ELSE ResolveFrom(axes, i + 1, 1, Append(unav, axes[i]))

AvailStart(axes, r) ==
  IF r.pc = "probing"
  THEN << [ ev |-> "availStart", axis |-> axes[r.i],
            adapter |-> getAdaptersForAxis(axes[r.i])[r.j].id ] >>
  ELSE <<>>

\* measure(config, registry, options) is called: resolveRequestedAxes, then
\* resolveAdapters runs up to its first await.
CallMeasure(cfg) ==
  /\ pc = "idle"
  /\ LET axes == resolveRequestedAxes(cfg)
         r == ResolveFrom(axes, 1, 1, <<>>)
     IN  /\ config' = cfg
         /\ requestedAxes' = axes
         /\ pc' = r.pc
         /\ axisIdx' = r.i
         /\ candIdx' = r.j
         /\ unavailable' = r.unavailable
         /\ log' = log \o AvailStart(axes, r)
  /\ resolved' = <<>>
  /\ UNCHANGED << adapters, threw, entries, results, started, returned, first, offstage >>

\* Variant: the inner loop has no break; after an available candidate the
\* next candidate of the same axis is probed too.
AvailabilityReturnsNoBreak ==
  /\ pc = "probing"
  /\ LET axisId == requestedAxes[axisIdx]
         adapter == getAdaptersForAxis(axisId)[candIdx]
         availability == [ available |-> adapter.available ]
         r == ResolveFrom(requestedAxes, axisIdx, candIdx + 1, unavailable)
     IN  /\ resolved' = IF availability.available
                        THEN MapSet(resolved, axisId, adapter)
                        ELSE resolved
         /\ pc' = r.pc
         /\ axisIdx' = r.i
         /\ candIdx' = r.j
         /\ unavailable' = r.unavailable
         /\ log' = log
               \o << [ ev |-> "availEnd", axis |-> axisId, adapter |-> adapter.id ] >>
               \o AvailStart(requestedAxes, r)
  /\ UNCHANGED << adapters, threw, config, requestedAxes, entries, results,
                  started, returned, first, offstage >>

\* Variant: an adapter that answered unavailable is dropped from the registry.
AvailabilityReturnsEvict ==
  /\ pc = "probing"
  /\ LET axisId == requestedAxes[axisIdx]
         adapter == getAdaptersForAxis(axisId)[candIdx]
         availability == [ available |-> adapter.available ]
         r == IF availability.available
              THEN ResolveFrom(requestedAxes, axisIdx + 1, 1, unavailable)
              ELSE ResolveFrom(requestedAxes, axisIdx, candIdx + 1, unavailable)
     IN  /\ resolved' = IF availability.available
                        THEN MapSet(resolved, axisId, adapter)
                        ELSE resolved
         /\ adapters' = IF availability.available
                        THEN adapters
                        ELSE SelectSeq(adapters, LAMBDA x : x.id # adapter.id)
         /\ pc' = r.pc
         /\ axisIdx' = r.i
         /\ candIdx' = r.j
         /\ unavailable' = r.unavailable
         /\ log' = log
               \o << [ ev |-> "availEnd", axis |-> axisId, adapter |-> adapter.id ] >>
               \o AvailStart(requestedAxes, r)
  /\ UNCHANGED << threw, config, requestedAxes, entries, results,
                  started, returned, first, offstage >>

\* Variant: adapter.measure is called as soon as the axis has resolved,
\* while later axes are still being probed.
AvailabilityReturnsEager ==
  /\ pc = "probing"
  /\ LET axisId == requestedAxes[axisIdx]
         adapter == getAdaptersForAxis(axisId)[candIdx]
         availability == [ available |-> adapter.available ]
         r == IF availability.available
              THEN ResolveFrom(requestedAxes, axisIdx + 1, 1, unavailable)
              ELSE ResolveFrom(requestedAxes, axisIdx, candIdx + 1, unavailable)
     IN  /\ resolved' = IF availability.available
                        THEN MapSet(resolved, axisId, adapter)
                        ELSE resolved
         /\ pc' = r.pc
         /\ axisIdx' = r.i
         /\ candIdx' = r.j
         /\ unavailable' = r.unavailable
         /\ log' = log
               \o << [ ev |-> "availEnd", axis |-> axisId, adapter |-> adapter.id ] >>
               \o (IF availability.available
                   THEN << [ ev |-> "measStart", axis |-> axisId, adapter |-> adapter.id ] >>
                   ELSE <<>>)
               \o AvailStart(requestedAxes, r)
  /\ UNCHANGED << adapters, threw, config, requestedAxes, entries, results,
                  started, returned, first, offstage >>

\* The awaited checkAvailability() settles and resolveAdapters continues up
\* to its next await or its return.
AvailabilityReturns ==
  /\ pc = "probing"
  /\ LET axisId == requestedAxes[axisIdx]
         adapter == getAdaptersForAxis(axisId)[candIdx]
         availability == [ available |-> adapter.available ]
         r == IF availability.available
              THEN ResolveFrom(requestedAxes, axisIdx + 1, 1, unavailable)
              ELSE ResolveFrom(requestedAxes, axisIdx, candIdx + 1, unavailable)
     IN  /\ resolved' = IF availability.available
                        THEN MapSet(resolved, axisId, adapter)
                        ELSE resolved
         /\ pc' = r.pc
         /\ axisIdx' = r.i
         /\ candIdx' = r.j
         /\ unavailable' = r.unavailable
         /\ log' = log
               \o << [ ev |-> "availEnd", axis |-> axisId, adapter |-> adapter.id ] >>
               \o AvailStart(requestedAxes, r)
  /\ UNCHANGED << adapters, threw, config, requestedAxes, entries, results,
                  started, returned, first, offstage >>

\* Variant: the message names only the first unavailable axis.
NoAdaptersMessageFirstOnly(unav) ==
  IF Len(unav) > 0
  THEN << "No available adapters for requested axes: ", unav[1] >>
  ELSE << "No axes requested and no adapters registered" >>

NoAdaptersMessage(unav) ==
  IF Len(unav) > 0
  THEN << "No available adapters for requested axes: " >> \o Join(unav, ", ")
  ELSE << "No axes requested and no adapters registered" >>

\* Variant: only the first entry's adapter.measure is called before awaiting.
FanOutFirstOnly(n) == IF n > 0 THEN {1} ELSE {}

\* The entries whose adapter.measure is called by entries.map(...), before
\* Promise.all is awaited: all of them.
FanOut(n) == 1..n

\* resolveAdapters has returned: fail early when nothing resolved, else call
\* adapter.measure for every entry and await Promise.all.
AfterResolve ==
  /\ pc = "resolved"
  /\ IF Len(resolved) = 0
     THEN /\ returned' = << err([ message |-> NoAdaptersMessage(unavailable),
                                  axisErrors |-> <<>> ]) >>
          /\ pc' = "done"
          /\ UNCHANGED << entries, results, started, log >>
     ELSE /\ entries' = resolved
          /\ results' = [ i \in 1..Len(resolved) |-> <<>> ]
          /\ started' = FanOut(Len(resolved))
          /\ log' = log \o
               LET idx == SelectIdx([ i \in 1..Len(resolved) |-> i ],
                                    FanOut(Len(resolved)), 1)
               IN  [ k \in 1..Len(idx) |->
                       [ ev |-> "measStart", axis |-> resolved[idx[k]][1],
                         adapter |-> resolved[idx[k]][2].id ] ]
          /\ pc' = "measuring"
          /\ UNCHANGED returned
  /\ UNCHANGED << adapters, threw, config, requestedAxes, axisIdx, candIdx,
                  resolved, unavailable, first, offstage >>

\* What adapter.measure(targetPath, axisId) can answer: the measurement of
\* axisId produced by this adapter, or an AdapterError of this adapter.
AdapterOutcomes(adapter, targetPath, axisId) ==
  { ok([ axisId |-> axisId, producedBy |-> adapter.id, targetPath |-> targetPath ]),
    err([ adapterId |-> adapter.id, message |-> "tool crashed" ]) }

\* Adapters are stateless: asked again for the same axis, an adapter answers
\* as it did in the first call.
AdapterAnswers(adapter, targetPath, axisId) ==
  IF first # <<>> /\ << adapter.id, axisId >> \in DOMAIN first[1].answers
  THEN { first[1].answers[<< adapter.id, axisId >>] }
  ELSE AdapterOutcomes(adapter, targetPath, axisId)

\* Variant: a measure call that returned an error is made once more.
MeasureReturnsRetry(i) ==
  /\ pc = "measuring"
  /\ i \in started
  /\ results[i] = <<>>
  /\ \E result \in AdapterAnswers(entries[i][2], config.targetPath, entries[i][1]) :
       LET end == [ ev |-> "measEnd", axis |-> entries[i][1], adapter |-> entries[i][2].id ]
           again == [ ev |-> "measStart", axis |-> entries[i][1], adapter |-> entries[i][2].id ]
       IN  IF ~result.ok /\ end \notin { log[p] : p \in 1..Len(log) }
           THEN /\ results' = results
                /\ log' = log \o << end, again >>
           ELSE /\ results' = [ results EXCEPT ![i] = << result >> ]
                /\ log' = log \o << end >>
  /\ UNCHANGED << adapters, threw, pc, config, requestedAxes, axisIdx, candIdx,
                  resolved, unavailable, entries, started, returned, first, offstage >>

\* The promise of entry i settles with the adapter's answer.
MeasureReturns(i) ==
  /\ pc = "measuring"
  /\ i \in started
  /\ results[i] = <<>>
  /\ \E result \in AdapterAnswers(entries[i][2], config.targetPath, entries[i][1]) :
       /\ results' = [ results EXCEPT ![i] = << result >> ]
       /\ log' = log \o << [ ev |-> "measEnd", axis |-> entries[i][1],
                             adapter |-> entries[i][2].id ] >>
  /\ UNCHANGED << adapters, threw, pc, config, requestedAxes, axisIdx, candIdx,
                  resolved, unavailable, entries, started, returned, first, offstage >>

\* Variant: successes are collected in the order the calls completed.
axisMeasurementsByCompletion(res, i) ==
  LET ends == SelectIdx([ p \in 1..Len(log) |-> log[p].ev ], { "measEnd" }, 1)
      entryOf(a) == CHOOSE k \in 1..Len(entries) : entries[k][1] = a
      okEnds == SelectIdx([ e \in 1..Len(ends) |-> res[entryOf(log[ends[e]].axis)][1].ok ],
                          { TRUE }, 1)
  IN  [ e \in 1..Len(okEnds) |-> res[entryOf(log[ends[okEnds[e]]].axis)][1].value ]

\* Variant: the loop stops at the first failure.
RECURSIVE axisMeasurementsUntilError(_, _)
axisMeasurementsUntilError(res, i) ==
  IF i > Len(res) THEN <<>>
  ELSE IF res[i][1].ok
       THEN << res[i][1].value >> \o axisMeasurementsUntilError(res, i + 1)
       ELSE <<>>

\* The loop over results: successes in order.
RECURSIVE axisMeasurementsOf(_, _)
axisMeasurementsOf(res, i) ==
  IF i > Len(res) THEN <<>>
  ELSE IF res[i][1].ok
       THEN << res[i][1].value >> \o axisMeasurementsOf(res, i + 1)
       ELSE axisMeasurementsOf(res, i + 1)

\* Variant: only the first failure is recorded.
RECURSIVE axisErrorsFirstOnly(_, _, _)
axisErrorsFirstOnly(res, ent, i) ==
  IF i > Len(res) THEN <<>>
  ELSE IF res[i][1].ok
       THEN axisErrorsFirstOnly(res, ent, i + 1)
       ELSE << [ axisId |-> ent[i][1], adapterId |-> ent[i][2].id,
                 error |-> res[i][1].error ] >>

\* The loop over results: failures in order.
RECURSIVE axisErrorsOf(_, _, _)
axisErrorsOf(res, ent, i) ==
  IF i > Len(res) THEN <<>>
  ELSE IF res[i][1].ok
       THEN axisErrorsOf(res, ent, i + 1)
       ELSE << [ axisId |-> ent[i][1], adapterId |-> ent[i][2].id,
                 error |-> res[i][1].error ] >>
            \o axisErrorsOf(res, ent, i + 1)

\* Variant: the failure warnings come before the unavailable-axis warnings.
warningsFailuresFirst(unav, axisErrors) ==
  [ k \in 1..Len(axisErrors) |->
      [ axisId |-> axisErrors[k].axisId,
        message |-> << "Adapter \"", axisErrors[k].adapterId, "\" failed: ",
                       axisErrors[k].error.message >> ] ]
  \o
  [ k \in 1..Len(unav) |->
      [ axisId |-> unav[k],
        message |-> << "No available adapter for axis \"", unav[k], "\"" >> ] ]

\* Variant: unavailable axes get no warning.
warningsFailuresOnly(unav, axisErrors) ==
  [ k \in 1..Len(axisErrors) |->
      [ axisId |-> axisErrors[k].axisId,
        message |-> << "Adapter \"", axisErrors[k].adapterId, "\" failed: ",
                       axisErrors[k].error.message >> ] ]

\* The two warning loops.
warningsOf(unav, axisErrors) ==
  [ k \in 1..Len(unav) |->
      [ axisId |-> unav[k],
        message |-> << "No available adapter for axis \"", unav[k], "\"" >> ] ]
  \o
  [ k \in 1..Len(axisErrors) |->
      [ axisId |-> axisErrors[k].axisId,
        message |-> << "Adapter \"", axisErrors[k].adapterId, "\" failed: ",
                       axisErrors[k].error.message >> ] ]

\* Variant: any adapter error aborts the run.
AggregateAbortOnError ==
  /\ pc = "measuring"
  /\ \A i \in 1..Len(entries) : results[i] # <<>>
  /\ LET axisMeasurements == axisMeasurementsOf(results, 1)
         axisErrors == axisErrorsOf(results, entries, 1)
     IN  returned' =
           IF Len(axisErrors) > 0
           THEN << err([ message |-> << "All adapters failed during measurement" >>,
                         axisErrors |-> axisErrors ]) >>
           ELSE << ok([ targetPath |-> config.targetPath,
                        timestamp |-> FIXED_TIMESTAMP,
                        axes |-> axisMeasurements,
                        warnings |-> warningsOf(unavailable, axisErrors) ]) >>
  /\ pc' = "done"
  /\ UNCHANGED << adapters, threw, config, requestedAxes, axisIdx, candIdx,
                  resolved, unavailable, entries, results, started, log, first, offstage >>

\* Promise.all has settled: partition the results, fail when every adapter
\* errored, else build the warnings and the report.
Aggregate ==
  /\ pc = "measuring"
  /\ \A i \in 1..Len(entries) : results[i] # <<>>
  /\ LET axisMeasurements == axisMeasurementsOf(results, 1)
         axisErrors == axisErrorsOf(results, entries, 1)
     IN  returned' =
           IF Len(axisMeasurements) = 0 /\ Len(axisErrors) > 0
           THEN << err([ message |-> << "All adapters failed during measurement" >>,
                         axisErrors |-> axisErrors ]) >>
           ELSE << ok([ targetPath |-> config.targetPath,
                        timestamp |-> FIXED_TIMESTAMP,
                        axes |-> axisMeasurements,
                        warnings |-> warningsOf(unavailable, axisErrors) ]) >>
  /\ pc' = "done"
  /\ UNCHANGED << adapters, threw, config, requestedAxes, axisIdx, candIdx,
                  resolved, unavailable, entries, results, started, log, first, offstage >>

\* ---------------------------------------------------------- specification
\* A report nobody has produced yet.
EmptyReport ==
  [ targetPath |-> "/project", timestamp |-> FIXED_TIMESTAMP, axes |-> <<>>,
    warnings |-> <<>> ]

Init ==
  /\ adapters = <<>>
  /\ threw = FALSE
  /\ pc = "idle"
  /\ config = [ targetPath |-> "/project", axes |-> <<>> ]
  /\ requestedAxes = <<>>
  /\ axisIdx = 1
  /\ candIdx = 1
  /\ resolved = <<>>
  /\ unavailable = <<>>
  /\ entries = <<>>
  /\ results = <<>>
  /\ started = {}
  /\ log = <<>>
  /\ returned = <<>>
  /\ first = <<>>
  /\ lastCall = <<>>
  /\ accepted = <<>>
  /\ tReport = EmptyReport
  /\ tLast = <<>>
  /\ tOrig = EmptyReport
  /\ tHeld = EmptyReport

\* measure() has returned and is called again with the same config, registry
\* and clock: a fresh invocation, with fresh locals.
MeasureAgain ==
  /\ pc = "done"
  /\ first = <<>>
  /\ first' = << [ returned |-> returned,
                   log |-> log,
                   answers |-> [ e \in { << entries[i][2].id, entries[i][1] >> :
                                           i \in 1..Len(entries) } |->
                                 results[CHOOSE i \in 1..Len(entries) :
                                           entries[i][1] = e[2]][1] ] ] >>
  /\ LET axes == resolveRequestedAxes(config)
         r == ResolveFrom(axes, 1, 1, <<>>)
     IN  /\ requestedAxes' = axes
         /\ pc' = r.pc
         /\ axisIdx' = r.i
         /\ candIdx' = r.j
         /\ unavailable' = r.unavailable
         /\ log' = AvailStart(axes, r)
  /\ resolved' = <<>>
  /\ entries' = <<>>
  /\ results' = <<>>
  /\ started' = {}
  /\ returned' = <<>>
  /\ UNCHANGED << adapters, threw, config, offstage >>

Next ==
  \/ \E adapter \in ToolAdapter : register(adapter) /\ UNCHANGED offstage
  \/ \E cfg \in MeasurementConfig : CallMeasure(cfg)
  \/ AvailabilityReturns
  \/ AfterResolve
  \/ \E i \in 1..Len(entries) : MeasureReturns(i)
  \/ Aggregate

Spec == Init /\ [][Next]_vars

\* Every adapter call the orchestrator awaits settles, and the event loop
\* runs the orchestrator's continuation once the promise it awaits settled.
AdapterCallsComplete ==
  /\ WF_vars(AvailabilityReturns)
  /\ \A i \in 1..NumAxes : WF_vars(MeasureReturns(i))

ContinuationsRun == WF_vars(AfterResolve) /\ WF_vars(Aggregate)

SpecLive == Spec /\ AdapterCallsComplete /\ ContinuationsRun

\* Two consecutive calls of measure() with the same arguments.
NextTwice == Next \/ MeasureAgain

SpecTwice == Init /\ [][NextTwice]_vars

\* A client of the registry alone: any sequence of register() calls, the
\* client noting each call's argument and whether it threw.
RegisterCall(adapter) ==
  /\ register(adapter)
  /\ lastCall' = << adapter >>
  /\ accepted' = IF threw' THEN accepted ELSE Append(accepted, adapter)
  /\ UNCHANGED << tReport, tLast, tOrig, tHeld >>

NextRegistry == \E adapter \in ToolAdapter : RegisterCall(adapter)

SpecRegistry == Init /\ [][NextRegistry]_vars

\* ------------------------------------------- orchestration/report-transforms
\* MetricValue, reduced to what the transforms read: descriptor.id and value.
MetricIds == { "code-lines", "total-lines" }

MetricValue == [ id : MetricIds, value : 0..MaxValue ]

AllFilePaths ==
  << "/project/a.ts", "/project/b.ts", "/project/c.ts", "/project/d.ts", "/project/e.ts" >>

\* FileMeasurement lists of n files: the i-th file of an axis is the i-th
\* path, with any metrics.
FileLists(n) ==
  { [ i \in 1..n |-> [ filePath |-> AllFilePaths[i], metrics |-> ms[i] ] ] :
      ms \in [ 1..n -> SeqsUpTo(MetricValue, MaxMetrics) ] }

\* The file lists of at most a axes holding at most f files together.
RECURSIVE AxesFiles(_, _)
AxesFiles(a, f) ==
  IF a = 0 THEN { <<>> }
  ELSE { <<>> } \cup
       UNION { { << fl >> \o rest : fl \in FileLists(n), rest \in AxesFiles(a - 1, f - n) } :
               n \in 0..f }

\* The reports measure() can hand to the transforms: no axis carries fileTotalCount.
MeasurementReports ==
  { [ targetPath |-> "/project", timestamp |-> FIXED_TIMESTAMP,
      axes |-> [ k \in 1..Len(fls) |->
                   [ axisId |-> AXES[k], summary |-> <<>>, files |-> fls[k] ] ],
      warnings |-> <<>> ] :
      fls \in AxesFiles(MaxReportAxes, MaxFiles) }

\* metrics.find((m) => m.descriptor.id === metricId): << the first match >>, or <<>>.
find(metrics, metricId) ==
  LET idx == SelectIdx(metrics, { m \in Range(metrics) : m.id = metricId }, 1)
  IN  IF idx = <<>> THEN <<>> ELSE << metrics[idx[1]] >>

\* Variant: the comparator orders the values ascending.
compareAscending(a, b, metricId) ==
  LET aMetric == find(a.metrics, metricId)
      bMetric == find(b.metrics, metricId)
  IN  IF aMetric = <<>> /\ bMetric = <<>> THEN 0
      ELSE IF aMetric = <<>> THEN 1
      ELSE IF bMetric = <<>> THEN -1
      ELSE aMetric[1].value - bMetric[1].value

\* The comparator sortFiles passes to Array.prototype.sort.
compare(a, b, metricId) ==
  LET aMetric == find(a.metrics, metricId)
      bMetric == find(b.metrics, metricId)
  IN  IF aMetric = <<>> /\ bMetric = <<>> THEN 0
      ELSE IF aMetric = <<>> THEN 1
      ELSE IF bMetric = <<>> THEN -1
      ELSE bMetric[1].value - aMetric[1].value

\* Array.prototype.sort is stable: x goes before the first element the
\* comparator puts after it, so behind every element it ties with.
RECURSIVE InsertSorted(_, _, _)
InsertSorted(sorted, x, metricId) ==
  IF sorted = <<>> THEN << x >>
  ELSE IF compare(Head(sorted), x, metricId) > 0 THEN << x >> \o sorted
  ELSE << Head(sorted) >> \o InsertSorted(Tail(sorted), x, metricId)

RECURSIVE SortFrom(_, _, _, _)
SortFrom(files, k, sorted, metricId) ==
  IF k > Len(files) THEN sorted
  ELSE SortFrom(files, k + 1, InsertSorted(sorted, files[k], metricId), metricId)

\* Variant: the axis is rebuilt from its known fields instead of spread.
sortFilesRebuild(report, metricId) ==
  [ report EXCEPT !.axes =
      [ k \in 1..Len(report.axes) |->
          [ axisId |-> report.axes[k].axisId,
            summary |-> report.axes[k].summary,
            files |-> SortFrom(report.axes[k].files, 1, <<>>, metricId) ] ] ]

\* sortFiles(report, metricId): { ...report, axes: axes.map({ ...axis, files: sorted }) }.
sortFiles(report, metricId) ==
  [ report EXCEPT !.axes =
      [ k \in 1..Len(report.axes) |->
          [ report.axes[k] EXCEPT !.files = SortFrom(report.axes[k].files, 1, <<>>, metricId) ] ] ]

\* Variant: an axis holding exactly n files is truncated too.
limitAxisStrict(axis, n) ==
  IF Len(axis.files) < n
  THEN axis
  ELSE [ f \in DOMAIN axis \cup { "fileTotalCount" } |->
           IF f = "files" THEN SubSeq(axis.files, 1, n)
           ELSE IF f = "fileTotalCount" THEN Len(axis.files)
           ELSE axis[f] ]

\* The callback of limitFiles: the axis itself, or
\* { ...axis, files: files.slice(0, n), fileTotalCount: files.length }.
limitAxis(axis, n) ==
  IF Len(axis.files) <= n
  THEN axis
  ELSE [ f \in DOMAIN axis \cup { "fileTotalCount" } |->
           IF f = "files" THEN SubSeq(axis.files, 1, n)
           ELSE IF f = "fileTotalCount" THEN Len(axis.files)
           ELSE axis[f] ]

\* limitFiles(report, n): { ...report, axes: axes.map(limitAxis) }.
limitFiles(report, n) ==
  [ report EXCEPT !.axes = [ k \in 1..Len(report.axes) |-> limitAxis(report.axes[k], n) ] ]

\* Variant: sort is called on axis.files itself, not on a copy of it.
sortFilesInputNoCopy(report, metricId) ==
  [ report EXCEPT !.axes =
      [ k \in 1..Len(report.axes) |->
          [ report.axes[k] EXCEPT !.files = SortFrom(report.axes[k].files, 1, <<>>, metricId) ] ] ]

\* What the report passed to sortFiles holds after the call: sort reorders
\* its receiver in place, and the receiver is the copy [...axis.files]; the
\* report and its axes are only read and spread into new objects.
sortFilesInput(report, metricId) ==
  [ report EXCEPT !.axes =
      [ k \in 1..Len(report.axes) |->
          [ report.axes[k] EXCEPT !.files = report.axes[k].files ] ] ]

\* Variant: the files array is cut in place (splice) instead of sliced.
limitFilesInputSplice(report, n) ==
  [ report EXCEPT !.axes =
      [ k \in 1..Len(report.axes) |->
          IF Len(report.axes[k].files) <= n
          THEN report.axes[k]
          ELSE [ report.axes[k] EXCEPT !.files = SubSeq(report.axes[k].files, 1, n) ] ] ]

\* What the report passed to limitFiles holds after the call: slice copies,
\* and the axis is returned as it is or spread into a new object.
limitFilesInput(report, n) ==
  [ report EXCEPT !.axes =
      [ k \in 1..Len(report.axes) |->
          IF Len(report.axes[k].files) <= n
          THEN report.axes[k]
          ELSE [ report.axes[k] EXCEPT !.files = report.axes[k].files ] ] ]

\* A client of the transforms: it holds a report measure() produced and
\* replaces it by the result of a transform, noting the call.
InitTransform ==
  /\ adapters = <<>>
  /\ threw = FALSE
  /\ pc = "idle"
  /\ config = [ targetPath |-> "/project", axes |-> <<>> ]
  /\ requestedAxes = <<>>
  /\ axisIdx = 1
  /\ candIdx = 1
  /\ resolved = <<>>
  /\ unavailable = <<>>
  /\ entries = <<>>
  /\ results = <<>>
  /\ started = {}
  /\ log = <<>>
  /\ returned = <<>>
  /\ first = <<>>
  /\ lastCall = <<>>
  /\ accepted = <<>>
  /\ tReport \in MeasurementReports
  /\ tLast = <<>>
  /\ tOrig = tReport
  /\ tHeld = tReport

\* The first call receives the object measure() produced, a later call the
\* object the previous call returned.
SortFilesCall(metricId) ==
  /\ tReport' = sortFiles(tReport, metricId)
  /\ tLast' = << [ op |-> "sortFiles", metricId |-> metricId, input |-> tReport,
                   inputAfter |-> sortFilesInput(tReport, metricId) ] >>
  /\ tHeld' = IF tLast = <<>> THEN sortFilesInput(tReport, metricId) ELSE tHeld
  /\ UNCHANGED << adapters, threw, pc, runVars, lastCall, accepted, tOrig >>

LimitFilesCall(n) ==
  /\ tReport' = limitFiles(tReport, n)
  /\ tLast' = << [ op |-> "limitFiles", n |-> n, input |-> tReport,
                   inputAfter |-> limitFilesInput(tReport, n) ] >>
  /\ tHeld' = IF tLast = <<>> THEN limitFilesInput(tReport, n) ELSE tHeld
  /\ UNCHANGED << adapters, threw, pc, runVars, lastCall, accepted, tOrig >>

NextTransform ==
  \/ \E metricId \in MetricIds : SortFilesCall(metricId)
  \/ \E n \in 0..(MaxFiles + 1) : LimitFilesCall(n)

SpecTransform == InitTransform /\ [][NextTransform]_vars

\* --------------------------------------------------------------- cli/run
\* run(argv, deps) from the point where measure() has returned ok: rawReport
\* is the report, config carries topN and sortMetric as parseArgs set them
\* (<<>> for undefined). The report handed to the formatter is
\* limitFiles(rawReport, config.topN) when topN is given, else rawReport;
\* config.sortMetric is not read.
run(sortMetric, topN) ==
  /\ tLast = <<>>
  /\ tReport' = IF topN # <<>> THEN limitFiles(tReport, topN[1]) ELSE tReport
  /\ tLast' = << [ op |-> "run", sortMetric |-> sortMetric, topN |-> topN,
                   input |-> tReport,
                   inputAfter |-> IF topN # <<>> THEN limitFilesInput(tReport, topN[1])
                                  ELSE tReport ] >>
  /\ tHeld' = IF topN # <<>> THEN limitFilesInput(tReport, topN[1]) ELSE tHeld
  /\ UNCHANGED << adapters, threw, pc, runVars, lastCall, accepted, tOrig >>

\* parseArgs: --sort takes any metric id, --top a positive integer.
NextCli ==
  \E sortMetric \in { <<>> } \cup { << m >> : m \in MetricIds },
     topN \in { <<>> } \cup { << n >> : n \in 1..(MaxFiles + 1) } :
    run(sortMetric, topN)

SpecCli == InitTransform /\ [][NextCli]_vars

\* ------------------------------------------------- vocabulary of the claims
Done == pc = "done"

Result == returned[1]

Report == returned[1].value

\* The registered adapters that support axis a and answer available, as
\* positions of the registry in registration order.
AvailableAt(a) ==
  { i \in 1..Len(adapters) : a \in adapters[i].supportedAxes /\ adapters[i].available }

HasAvailable(a) == AvailableAt(a) # {}

FirstAvailable(a) ==
  adapters[CHOOSE i \in AvailableAt(a) : \A j \in AvailableAt(a) : i <= j]

\* The requested axes, each once, in order of first occurrence.
FirstOccurrences ==
  LET keep == { i \in 1..Len(requestedAxes) :
                  \A j \in 1..(i - 1) : requestedAxes[j] # requestedAxes[i] }
      idx == SelectIdx([ i \in 1..Len(requestedAxes) |-> i ], keep, 1)
  IN  [ k \in 1..Len(idx) |-> requestedAxes[idx[k]] ]

RECURSIVE Restrict(_, _)
\* Sequence s restricted to the elements of S.
Restrict(s, S) ==
  IF Len(s) = 0 THEN <<>>
  ELSE IF Head(s) \in S THEN << Head(s) >> \o Restrict(Tail(s), S)
  ELSE Restrict(Tail(s), S)

\* Some adapter.measure call of this run returned success.
AnyMeasureOk ==
  \E i \in 1..Len(results) : results[i] # <<>> /\ results[i][1].ok

MeasureStarted(a, id) ==
  \E p \in 1..Len(log) :
    log[p].ev = "measStart" /\ log[p].axis = a /\ log[p].adapter = id

\* ---------------------------------------------------------------- claims

\* C1 (as stated): whenever at least one requested axis has a registered
\* adapter that reports available, measure returns ok: true.
C1_AvailableImpliesSuccess ==
  (Done /\ \E a \in Range(requestedAxes) : HasAvailable(a)) => Result.ok

\* C1 (amended): whenever at least one requested axis has a registered adapter
\* that reports available and at least one resolved adapter's measure call
\* returns success, measure returns ok: true.
C1_AvailableAndMeasuredImpliesSuccess ==
  (Done /\ (\E a \in Range(requestedAxes) : HasAvailable(a)) /\ AnyMeasureOk)
    => Result.ok

C1_Witness ==
  /\ Done
  /\ \E a \in Range(requestedAxes) : HasAvailable(a)
  /\ \E a \in Range(requestedAxes) : ~HasAvailable(a)
  /\ AnyMeasureOk
  /\ \E i \in 1..Len(results) : ~results[i][1].ok
  /\ Result.ok

\* C2: measure returns an error exactly when no adapter.measure call returned
\* success; in a success report every unavailable requested axis and every
\* failed adapter has a warning.
C2_ErrorIffNoMeasurement ==
  Done =>
    /\ Result.ok <=> AnyMeasureOk
    /\ Result.ok =>
         /\ \A a \in Range(requestedAxes) :
              ~HasAvailable(a) =>
                \E k \in 1..Len(Report.warnings) :
                  /\ Report.warnings[k].axisId = a
                  /\ Report.warnings[k].message[1] = "No available adapter for axis \""
         /\ \A i \in 1..Len(results) :
              ~results[i][1].ok =>
                \E k \in 1..Len(Report.warnings) :
                  /\ Report.warnings[k].axisId = entries[i][1]
                  /\ Report.warnings[k].message[1] = "Adapter \""
                  /\ Report.warnings[k].message[2] = entries[i][2].id

C2_Witness ==
  /\ Done
  /\ Result.ok
  /\ \E a \in Range(requestedAxes) : ~HasAvailable(a)
  /\ \E i \in 1..Len(results) : ~results[i][1].ok
  /\ Len(Report.warnings) >= 2

\* C3: when no requested axis has an adapter that reports available, measure
\* returns an error whose message starts with the 'No available adapters'
\* sentence and names every requested axis, axisErrors is empty, and no
\* adapter.measure call is ever made.
C3_NoAvailableAdapters ==
  (pc # "idle" /\ \A a \in Range(requestedAxes) : ~HasAvailable(a)) =>
    /\ \A p \in 1..Len(log) : log[p].ev \notin { "measStart", "measEnd" }
    /\ Done =>
         /\ ~Result.ok
         /\ Result.error.message[1] = "No available adapters for requested axes: "
         /\ \A a \in Range(requestedAxes) : a \in Range(Tail(Result.error.message))
         /\ Result.error.axisErrors = <<>>

C3_Witness ==
  /\ Done
  /\ \A a \in Range(requestedAxes) : ~HasAvailable(a)
  /\ Len(FirstOccurrences) >= 2
  /\ \E p \in 1..Len(log) : log[p].ev = "availEnd"

\* C4: when some axis resolved and every adapter.measure call returned an
\* error, measure returns the error 'All adapters failed during measurement'
\* with one axisErrors entry per resolved axis, in request order, carrying
\* the axis, the adapter that was invoked and the error it returned.
C4_AllAdaptersFailed ==
  (Done /\ Len(results) > 0 /\ ~AnyMeasureOk) =>
    LET resolvedAxes == Restrict(FirstOccurrences, { a \in AxisId : HasAvailable(a) })
    IN  /\ ~Result.ok
        /\ Result.error.message = << "All adapters failed during measurement" >>
        /\ Len(Result.error.axisErrors) = Len(resolvedAxes)
        /\ \A k \in 1..Len(resolvedAxes) :
             /\ Result.error.axisErrors[k].axisId = resolvedAxes[k]
             /\ MeasureStarted(resolvedAxes[k], Result.error.axisErrors[k].adapterId)
             /\ Result.error.axisErrors[k].error = results[k][1].error

C4_Witness ==
  /\ Done
  /\ Len(results) >= 2
  /\ ~AnyMeasureOk
  /\ ~Result.ok
  /\ Len(Result.error.axisErrors) >= 2

\* C5: the adapter whose measure is invoked for an axis is the first adapter,
\* in registration order among those supporting the axis, that reported
\* available; every requested axis that has such an adapter is measured by
\* it, and its successful result is in the report.
C5_Fallback ==
  /\ \A p \in 1..Len(log) :
       log[p].ev = "measStart" =>
         /\ HasAvailable(log[p].axis)
         /\ log[p].adapter = FirstAvailable(log[p].axis).id
  /\ pc \in { "measuring", "done" } =>
       \A a \in Range(requestedAxes) :
         HasAvailable(a) => MeasureStarted(a, FirstAvailable(a).id)
  /\ (Done /\ Result.ok) =>
       \A i \in 1..Len(results) :
         results[i][1].ok =>
           \E k \in 1..Len(Report.axes) :
             /\ Report.axes[k] = results[i][1].value
             /\ Report.axes[k].producedBy = FirstAvailable(entries[i][1]).id

C5_Witness ==
  /\ Done
  /\ Result.ok
  /\ \E a \in Range(requestedAxes) :
       /\ HasAvailable(a)
       /\ \E i \in 1..Len(adapters) :
            /\ a \in adapters[i].supportedAxes
            /\ ~adapters[i].available
            /\ i < CHOOSE j \in AvailableAt(a) : \A l \in AvailableAt(a) : j <= l
       /\ \E k \in 1..Len(Report.axes) :
            /\ Report.axes[k].axisId = a
            /\ Report.axes[k].producedBy = FirstAvailable(a).id

\* The request lists each axis once, every axis has exactly one candidate
\* adapter, and no two axes share their adapter.
ServedByDistinctAdapters ==
  /\ Len(requestedAxes) >= 2
  /\ \A i \in 1..Len(requestedAxes) : Len(getAdaptersForAxis(requestedAxes[i])) = 1
  /\ \A i, j \in 1..Len(requestedAxes) :
       i # j =>
         /\ requestedAxes[i] # requestedAxes[j]
         /\ getAdaptersForAxis(requestedAxes[i])[1].id
              # getAdaptersForAxis(requestedAxes[j])[1].id

\* C6 (as stated): when the requested axes are served by distinct adapters,
\* the availability check of every axis has started before the availability
\* check of any axis completes.
C6_AvailabilityChecksOverlap ==
  ServedByDistinctAdapters =>
    \A p \in 1..Len(log) :
      log[p].ev = "availEnd" =>
        \A a \in Range(requestedAxes) :
          \E q \in 1..(p - 1) : log[q].ev = "availStart" /\ log[q].axis = a

\* C7: every resolved adapter's measure call has started before any of these
\* measure calls completes.
C7_MeasureCallsOverlap ==
  /\ pc = "measuring" => started = 1..Len(resolved)
  /\ \A p \in 1..Len(log) :
       log[p].ev = "measEnd" =>
         \A i \in 1..Len(resolved) :
           \E q \in 1..(p - 1) :
             /\ log[q].ev = "measStart"
             /\ log[q].axis = resolved[i][1]
             /\ log[q].adapter = resolved[i][2].id

C7_Witness ==
  /\ pc = "measuring"
  /\ Len(entries) >= 3
  /\ \E i \in 1..Len(entries) : results[i] # <<>>
  /\ \E i \in 1..Len(entries) : results[i] = <<>>

\* The axes whose adapter.measure call returned success.
SucceededAxes ==
  { a \in AxisId : \E i \in 1..Len(results) : entries[i][1] = a /\ results[i][1].ok }

\* C8: the axes of a success report are in request order (each axis at its
\* first occurrence), restricted to the axes whose measurement succeeded,
\* whatever the order in which the calls completed.
C8_ReportOrder ==
  (Done /\ Result.ok) =>
    [ k \in 1..Len(Report.axes) |-> Report.axes[k].axisId ]
      = Restrict(FirstOccurrences, SucceededAxes)

C8_Witness ==
  /\ Done
  /\ Result.ok
  /\ Len(Report.axes) >= 2
  /\ \E p, q \in 1..Len(log) :
       /\ p < q
       /\ log[p].ev = "measEnd" /\ log[p].axis = Report.axes[2].axisId
       /\ log[q].ev = "measEnd" /\ log[q].axis = Report.axes[1].axisId

\* C9: an adapter's error neither keeps another resolved adapter's measure
\* from being invoked and completing nor changes what is reported for another
\* axis: a success report holds every successful measurement, unchanged,
\* exactly once, and nothing else.
C9_Isolation ==
  /\ pc = "measuring" =>
       \A i \in 1..Len(entries) :
         /\ MeasureStarted(entries[i][1], entries[i][2].id)
         /\ results[i] = <<>> => ENABLED MeasureReturns(i)
  /\ (Done /\ AnyMeasureOk) =>
       /\ Result.ok
       /\ \A i \in 1..Len(results) :
            results[i][1].ok =>
              Cardinality({ k \in 1..Len(Report.axes) :
                              Report.axes[k] = results[i][1].value }) = 1
       /\ \A k \in 1..Len(Report.axes) :
            \E i \in 1..Len(results) :
              results[i][1].ok /\ Report.axes[k] = results[i][1].value

C9_Witness ==
  /\ Done
  /\ Result.ok
  /\ \E p, q \in 1..Len(log), i, j \in 1..Len(results) :
       /\ p < q
       /\ i < j
       /\ log[p].ev = "measEnd" /\ log[p].axis = entries[i][1] /\ ~results[i][1].ok
       /\ log[q].ev = "measEnd" /\ log[q].axis = entries[j][1] /\ results[j][1].ok
       /\ \E k \in 1..Len(Report.axes) : Report.axes[k] = results[j][1].value

NoDuplicates(s) == \A i, j \in 1..Len(s) : i # j => s[i] # s[j]

\* C10: in a success report for a request without duplicates every requested
\* axis is exactly one entry of axes or the axisId of exactly one warning,
\* the two lists together are as long as the request, and warnings is empty
\* when every axis succeeded.
C10_EveryAxisAccounted ==
  (Done /\ Result.ok /\ NoDuplicates(requestedAxes)) =>
    /\ \A a \in Range(requestedAxes) :
         Cardinality({ k \in 1..Len(Report.axes) : Report.axes[k].axisId = a })
           + Cardinality({ k \in 1..Len(Report.warnings) :
                             Report.warnings[k].axisId = a }) = 1
    /\ Len(Report.axes) + Len(Report.warnings) = Len(requestedAxes)
    /\ Range(requestedAxes) \subseteq SucceededAxes => Report.warnings = <<>>

C10_Witness ==
  /\ Done
  /\ Result.ok
  /\ NoDuplicates(requestedAxes)
  /\ Len(requestedAxes) >= 3
  /\ Len(Report.axes) >= 1
  /\ \E k \in 1..Len(Report.warnings) : ~HasAvailable(Report.warnings[k].axisId)
  /\ \E k \in 1..Len(Report.warnings) : HasAvailable(Report.warnings[k].axisId)

\* The axes whose adapter.measure call returned an error.
FailedAxes ==
  { a \in AxisId : \E i \in 1..Len(results) : entries[i][1] = a /\ ~results[i][1].ok }

\* The error message the adapter measuring axis a returned.
ErrorMessageOf(a) ==
  results[CHOOSE i \in 1..Len(results) : entries[i][1] = a][1].error.message

CompletionOrder(l) ==
  LET ends == SelectIdx([ p \in 1..Len(l) |-> l[p].ev ], { "measEnd" }, 1)
  IN  [ k \in 1..Len(ends) |-> l[ends[k]].axis ]

\* C12: a second call of measure with the same config, the same registry,
\* adapters that answer the same way and the same fixed clock returns a result
\* equal to the first call's, whatever the order in which the adapter calls
\* complete in each call.
C12_Deterministic ==
  (Done /\ first # <<>>) => returned = first[1].returned

\* Both calls returned a report with a warning, and the adapter calls
\* completed in a different order in the two calls.
C12_Witness ==
  /\ Done
  /\ first # <<>>
  /\ Result.ok
  /\ Len(Report.axes) >= 2
  /\ Len(Report.warnings) >= 1
  /\ CompletionOrder(log) # CompletionOrder(first[1].log)

\* C13: no axis id occurs in more than one entry of a report's axes, also
\* when the request lists an axis more than once.
C13_NoAxisTwice ==
  (Done /\ Result.ok) =>
    \A k, l \in 1..Len(Report.axes) :
      k # l => Report.axes[k].axisId # Report.axes[l].axisId

\* The request repeats an axis, and that axis is measured and reported.
C13_Witness ==
  /\ Done
  /\ Result.ok
  /\ \E i, j \in 1..Len(requestedAxes) :
       /\ i # j
       /\ requestedAxes[i] = requestedAxes[j]
       /\ \E k \in 1..Len(Report.axes) : Report.axes[k].axisId = requestedAxes[i]

\* The requested set: the listed axes, or every known axis when none is listed.
RequestedSet ==
  IF config.axes = <<>> THEN AxisId ELSE { config.axes[i] : i \in 1..Len(config.axes) }

\* C14: every adapter.measure call is for an axis of the requested set, and
\* every entry of a success report's axes is the measurement of an axis of
\* the requested set.
C14_OnlyRequestedAxes ==
  /\ \A p \in 1..Len(log) :
       log[p].ev \in { "measStart", "measEnd" } => log[p].axis \in RequestedSet
  /\ (Done /\ Result.ok) =>
       \A k \in 1..Len(Report.axes) : Report.axes[k].axisId \in RequestedSet

\* A report for an explicit request, while an available adapter supports an
\* axis that was not requested.
C14_Witness ==
  /\ Done
  /\ Result.ok
  /\ config.axes # <<>>
  /\ \E a \in AxisId \ RequestedSet : HasAvailable(a)
  /\ \E p \in 1..Len(log) : log[p].ev = "measEnd"

\* What config.axes asks to process: the list itself, or the AXES table.
ExpectedAxes == IF Len(config.axes) > 0 THEN config.axes ELSE AXES

\* The availability checks that processing axis a makes: its candidates in
\* registration order, up to and including the first available one.
ExpectedProbes(a) ==
  LET cands == SelectIdx([ i \in 1..Len(adapters) |-> a \in adapters[i].supportedAxes ],
                         { TRUE }, 1)
      upTo == IF \E k \in 1..Len(cands) : adapters[cands[k]].available
              THEN CHOOSE k \in 1..Len(cands) :
                     /\ adapters[cands[k]].available
                     /\ \A l \in 1..(k - 1) : ~adapters[cands[l]].available
              ELSE Len(cands)
  IN  [ k \in 1..upTo |-> << a, adapters[cands[k]].id >> ]

RECURSIVE ExpectedProbesOfAll(_)
ExpectedProbesOfAll(axes) ==
  IF Len(axes) = 0 THEN <<>>
  ELSE ExpectedProbes(Head(axes)) \o ExpectedProbesOfAll(Tail(axes))

\* The availability checks completed so far, in order.
ProbesDone ==
  LET ends == SelectIdx([ p \in 1..Len(log) |-> log[p].ev ], { "availEnd" }, 1)
  IN  [ k \in 1..Len(ends) |-> << log[ends[k]].axis, log[ends[k]].adapter >> ]

\* C15: a non-empty config.axes is processed exactly as listed, in the given
\* order; an empty one makes all known axes be processed in the canonical
\* order of the AXES table, and the axes without an available adapter are
\* then reported as unavailable instead of failing the run.
C15_RequestedAxesProcessed ==
  /\ pc \in { "resolved", "measuring", "done" } =>
       /\ ProbesDone = ExpectedProbesOfAll(ExpectedAxes)
       /\ unavailable = Restrict(ExpectedAxes, { a \in AxisId : ~HasAvailable(a) })
       /\ { resolved[i][1] : i \in 1..Len(resolved) }
            = { a \in Range(ExpectedAxes) : HasAvailable(a) }
  /\ pc = "probing" =>
       \E n \in 0..Len(ExpectedProbesOfAll(ExpectedAxes)) :
         ProbesDone = SubSeq(ExpectedProbesOfAll(ExpectedAxes), 1, n)
  /\ (Done /\ config.axes = <<>> /\ AnyMeasureOk) =>
       /\ Result.ok
       /\ \A a \in AxisId :
            ~HasAvailable(a) =>
              \E k \in 1..Len(Report.warnings) : Report.warnings[k].axisId = a

\* All known axes were processed, one of them without an available adapter,
\* and the run returned a report.
C15_Witness ==
  /\ Done
  /\ config.axes = <<>>
  /\ Result.ok
  /\ Len(ProbesDone) >= 2
  /\ \E a \in AxisId : ~HasAvailable(a)

\* C16: a register call whose adapter's id is already present throws and
\* leaves the registry as it was: getAdapter(id), getRegisteredIds and
\* getAdaptersForAxis answer after the call what they answered before it.
C16_DuplicateRegisterThrows ==
  [][ \A adapter \in ToolAdapter :
        (lastCall' = << adapter >> /\ has(adapter.id)) =>
          /\ threw'
          /\ getAdapter(adapter.id)' = getAdapter(adapter.id)
          /\ getRegisteredIds' = getRegisteredIds
          /\ \A a \in AxisId : getAdaptersForAxis(a)' = getAdaptersForAxis(a) ]_vars

\* A register call was rejected whose adapter differs from the one first
\* registered under its id.
C16_Witness ==
  /\ threw
  /\ lastCall # <<>>
  /\ Len(adapters) >= 2
  /\ adapters[1].id = lastCall[1].id
  /\ adapters[1] # lastCall[1]
  /\ getAdapter(lastCall[1].id) = << adapters[1] >>

\* Where the adapter with this id stands among the accepted ones.
AcceptedPos(id) == CHOOSE i \in 1..Len(accepted) : accepted[i].id = id

\* C17: getAdaptersForAxis(axis) returns exactly the successfully registered
\* adapters that support the axis, each once, in registration order (so the
\* empty list when none supports it).
C17_AdaptersForAxis ==
  \A a \in AxisId :
    LET r == getAdaptersForAxis(a)
    IN  /\ \A k \in 1..Len(r) : r[k] \in Range(accepted) /\ a \in r[k].supportedAxes
        /\ \A i \in 1..Len(accepted) :
             a \in accepted[i].supportedAxes =>
               Cardinality({ k \in 1..Len(r) : r[k] = accepted[i] }) = 1
        /\ \A k, l \in 1..Len(r) :
             k < l => AcceptedPos(r[k].id) < AcceptedPos(r[l].id)

\* Two registered adapters share an axis, another axis has no adapter, and a
\* register call has thrown.
C17_Witness ==
  /\ threw
  /\ Len(accepted) >= 2
  /\ \E a \in AxisId : Len(getAdaptersForAxis(a)) >= 2
  /\ \E a \in AxisId : getAdaptersForAxis(a) = <<>>
  /\ \E a \in AxisId : Len(getAdaptersForAxis(a)) = 1

\* C18: getRegisteredIds returns the ids of the successfully registered
\* adapters in registration order, none repeated, and getAdapter(id) returns
\* the adapter registered under id, or undefined for an id never registered.
C18_RegisteredIds ==
  /\ getRegisteredIds = [ i \in 1..Len(accepted) |-> accepted[i].id ]
  /\ NoDuplicates(getRegisteredIds)
  /\ \A id \in Range(AllAdapterIds) :
       getAdapter(id) =
         IF \E i \in 1..Len(accepted) : accepted[i].id = id
         THEN << accepted[AcceptedPos(id)] >>
         ELSE <<>>

\* Adapters were registered out of alphabetical order, and a register call
\* has thrown.
C18_Witness ==
  /\ threw
  /\ Len(accepted) >= 2
  /\ getRegisteredIds[1] = "tool-b"
  /\ getRegisteredIds[2] = "tool-a"
  /\ getAdapter("tool-c") = <<>>

\* The last transform call, and what the claims say about a file.
SortCalled == tLast # <<>> /\ tLast[1].op = "sortFiles"

LimitCalled == tLast # <<>> /\ tLast[1].op = "limitFiles"

HasMetric(file, metricId) ==
  \E i \in 1..Len(file.metrics) : file.metrics[i].id = metricId

ValueOf(file, metricId) ==
  LET i == CHOOSE i \in 1..Len(file.metrics) :
             /\ file.metrics[i].id = metricId
             /\ \A j \in 1..(i - 1) : file.metrics[j].id # metricId
  IN  file.metrics[i].value

PosIn(files, file) == CHOOSE i \in 1..Len(files) : files[i] = file

\* C19: after sortFiles(report, metricId) every axis holds the files it held;
\* those that have the metric are in descending order of its value, every
\* file lacking it comes after all that have it, and the files lacking it
\* keep their relative order (an axis where no file has it keeps its order).
C19_SortFiles ==
  SortCalled =>
    LET input == tLast[1].input
        metricId == tLast[1].metricId
    IN  /\ Len(tReport.axes) = Len(input.axes)
        /\ \A k \in 1..Len(input.axes) :
             LET before == input.axes[k].files
                 after == tReport.axes[k].files
             IN  /\ Len(after) = Len(before)
                 /\ Range(after) = Range(before)
                 /\ \A i, j \in 1..Len(after) :
                      i < j =>
                        /\ (HasMetric(after[i], metricId) /\ HasMetric(after[j], metricId))
                             => ValueOf(after[i], metricId) >= ValueOf(after[j], metricId)
                        /\ ~HasMetric(after[i], metricId) => ~HasMetric(after[j], metricId)
                        /\ (~HasMetric(after[i], metricId) /\ ~HasMetric(after[j], metricId))
                             => PosIn(before, after[i]) < PosIn(before, after[j])
                 /\ (\A i \in 1..Len(before) : ~HasMetric(before[i], metricId))
                      => after = before

\* An axis of three files was sorted: the first lacked the metric, the second
\* had a smaller value than the third, and the order is now reversed.
C19_Witness ==
  /\ SortCalled
  /\ Len(tLast[1].input.axes) >= 1
  /\ LET before == tLast[1].input.axes[1].files
         metricId == tLast[1].metricId
     IN  /\ Len(before) = 3
         /\ ~HasMetric(before[1], metricId)
         /\ HasMetric(before[2], metricId)
         /\ HasMetric(before[3], metricId)
         /\ ValueOf(before[2], metricId) < ValueOf(before[3], metricId)
         /\ tReport.axes[1].files = << before[3], before[2], before[1] >>

\* C20: after limitFiles(report, n) an axis that had more than n files holds
\* exactly its first n files in their order and fileTotalCount is the number
\* of files it had before the call; an axis that had n or fewer files is
\* returned as it was, no fileTotalCount added.
C20_LimitFiles ==
  LimitCalled =>
    LET input == tLast[1].input
        n == tLast[1].n
    IN  /\ Len(tReport.axes) = Len(input.axes)
        /\ \A k \in 1..Len(input.axes) :
             LET before == input.axes[k]
                 after == tReport.axes[k]
             IN  IF Len(before.files) > n
                 THEN /\ Len(after.files) = n
                      /\ \A i \in 1..n : after.files[i] = before.files[i]
                      /\ "fileTotalCount" \in DOMAIN after
                      /\ after.fileTotalCount = Len(before.files)
                 ELSE /\ after = before
                      /\ ("fileTotalCount" \in DOMAIN after)
                           <=> ("fileTotalCount" \in DOMAIN before)

\* A report of two axes was limited to one file: the axis of two files was
\* cut to its first file and counts two, the axis of one file is as it was
\* and carries no count.
C20_Witness ==
  /\ LimitCalled
  /\ tLast[1].n = 1
  /\ Len(tLast[1].input.axes) = 2
  /\ Len(tLast[1].input.axes[1].files) = 2
  /\ Len(tLast[1].input.axes[2].files) = 1
  /\ tReport.axes[1].files = << tLast[1].input.axes[1].files[1] >>
  /\ tReport.axes[1].fileTotalCount = 2
  /\ tReport.axes[2] = tLast[1].input.axes[2]
  /\ "fileTotalCount" \notin DOMAIN tReport.axes[2]

\* C21: after any sequence of sortFiles and limitFiles calls on a report of
\* measure(), an axis carries fileTotalCount exactly when it holds fewer files
\* than measure() gave it, and the count is then the number measure() gave it.
C21_TrueTotalCount ==
  /\ Len(tReport.axes) = Len(tOrig.axes)
  /\ \A k \in 1..Len(tReport.axes) :
       LET orig == tOrig.axes[k]
           now == tReport.axes[k]
       IN  /\ ("fileTotalCount" \in DOMAIN now) <=> (Len(now.files) < Len(orig.files))
           /\ ("fileTotalCount" \in DOMAIN now) => now.fileTotalCount = Len(orig.files)

RankOf(file, metricId) ==
  IF HasMetric(file, metricId) THEN ValueOf(file, metricId) ELSE -1

RunCalledWithSortAndTop ==
  /\ tLast # <<>>
  /\ tLast[1].op = "run"
  /\ tLast[1].sortMetric # <<>>
  /\ tLast[1].topN # <<>>

\* C23: a CLI run given both --sort and --top hands on a report in which
\* each axis holds the N files of largest value of the metric (all of them
\* when it has no more than N), in descending order, and an axis that lost
\* files carries fileTotalCount, the number of files it had.
C23_SortedBeforeTruncated ==
  RunCalledWithSortAndTop =>
    LET input == tLast[1].input
        metricId == tLast[1].sortMetric[1]
        topN == tLast[1].topN[1]
    IN  /\ Len(tReport.axes) = Len(input.axes)
        /\ \A k \in 1..Len(input.axes) :
             LET before == input.axes[k].files
                 after == tReport.axes[k].files
             IN  /\ Len(after) = IF Len(before) > topN THEN topN ELSE Len(before)
                 /\ Range(after) \subseteq Range(before)
                 /\ \A i, j \in 1..Len(after) :
                      i < j => RankOf(after[i], metricId) >= RankOf(after[j], metricId)
                 /\ \A f \in Range(before) \ Range(after), g \in Range(after) :
                      RankOf(g, metricId) >= RankOf(f, metricId)
                 /\ Len(before) > topN =>
                      /\ "fileTotalCount" \in DOMAIN tReport.axes[k]
                      /\ tReport.axes[k].fileTotalCount = Len(before)

\* The registry positions, in registration order, of the adapters that
\* support axis a, and the position of the adapter registered under id.
SupportersOf(a) == { i \in 1..Len(adapters) : a \in adapters[i].supportedAxes }

PosOfId(id) == CHOOSE i \in 1..Len(adapters) : adapters[i].id = id

IsEvent(p, ev, a, id) == log[p].ev = ev /\ log[p].axis = a /\ log[p].adapter = id

\* C24: the candidates of one axis are probed one at a time in registration
\* order: a checkAvailability call on a candidate starts only when no other
\* check for the axis is pending, every earlier candidate of the axis is
\* unavailable, and the call directly follows the completion of the check on
\* the candidate before it; so no candidate behind the first available one
\* is probed.
C24_CandidatesInTurn ==
  \A p \in 1..Len(log) :
    log[p].ev = "availStart" =>
      LET a == log[p].axis
          i == PosOfId(log[p].adapter)
          earlier == { e \in SupportersOf(a) : e < i }
      IN  /\ i \in SupportersOf(a)
          /\ \A e \in earlier : ~adapters[e].available
          /\ earlier # {} =>
               LET prev == CHOOSE e \in earlier : \A f \in earlier : f <= e
               IN  p > 1 /\ IsEvent(p - 1, "availEnd", a, adapters[prev].id)
          /\ \A q \in 1..(p - 1) :
               (log[q].ev = "availStart" /\ log[q].axis = a) =>
                 \E r \in (q + 1)..(p - 1) : IsEvent(r, "availEnd", a, log[q].adapter)

\* Two adapters support an axis; the first answered unavailable, then the
\* second was probed and answered, and measure() has returned.
C24_Witness ==
  /\ Done
  /\ Len(adapters) = 2
  /\ ~adapters[1].available
  /\ adapters[2].available
  /\ \E a \in AxisId, p \in 1..Len(log) :
       /\ SupportersOf(a) = { 1, 2 }
       /\ p + 3 <= Len(log)
       /\ IsEvent(p, "availStart", a, adapters[1].id)
       /\ IsEvent(p + 1, "availEnd", a, adapters[1].id)
       /\ IsEvent(p + 2, "availStart", a, adapters[2].id)
       /\ IsEvent(p + 3, "availEnd", a, adapters[2].id)

\* The positions of the log where adapter.measure was invoked for axis a.
MeasureCallsOf(a) == { p \in 1..Len(log) : log[p].ev = "measStart" /\ log[p].axis = a }

\* C25: adapter.measure is invoked once for each resolved axis and for no
\* other, on the adapter resolved for the axis, which has answered available
\* for that axis earlier in the run; a call that returned (an error or not)
\* is followed by no further call for its axis, on any adapter.
C25_MeasureOncePerResolvedAxis ==
  /\ \A p \in 1..Len(log) :
       log[p].ev = "measStart" =>
         /\ adapters[PosOfId(log[p].adapter)].available
         /\ \E q \in 1..(p - 1) : IsEvent(q, "availEnd", log[p].axis, log[p].adapter)
         /\ \E k \in 1..Len(resolved) :
              resolved[k][1] = log[p].axis /\ resolved[k][2].id = log[p].adapter
         /\ MeasureCallsOf(log[p].axis) = { p }
  /\ \A p \in 1..Len(log) :
       log[p].ev = "measEnd" =>
         \A q \in (p + 1)..Len(log) : ~(log[q].ev = "measStart" /\ log[q].axis = log[p].axis)
  /\ pc \in { "measuring", "done" } =>
       /\ \A a \in AxisId :
            Cardinality(MeasureCallsOf(a)) =
              IF \E k \in 1..Len(resolved) : resolved[k][1] = a THEN 1 ELSE 0
       /\ \A a \in Range(requestedAxes) :
            HasAvailable(a) <=> \E k \in 1..Len(resolved) : resolved[k][1] = a

\* Two axes were resolved, one of them through its second candidate; one
\* measure call returned an error, the other succeeded, and measure() has
\* returned with exactly two measure calls made.
C25_Witness ==
  /\ Done
  /\ Len(resolved) = 2
  /\ \E i, j \in 1..Len(results) : ~results[i][1].ok /\ results[j][1].ok
  /\ \E k \in 1..Len(resolved) :
       \E e \in SupportersOf(resolved[k][1]) : e < PosOfId(resolved[k][2].id)
  /\ Cardinality({ p \in 1..Len(log) : log[p].ev = "measStart" }) = 2

\* An adapter call the orchestrator awaits is outstanding.
AvailabilityPending ==
  /\ Len(log) > 0
  /\ log[Len(log)].ev = "availStart"

MeasurePending == \E i \in started : results[i] = <<>>

\* C26: when every adapter call completes, a called measure() returns; and
\* while it has not returned it is waiting for an adapter call or about to
\* run (resolution finished, or every measure call settled).
C26_Termination ==
  /\ [](pc = "probing" => AvailabilityPending)
  /\ []((pc = "measuring" /\ ~MeasurePending) => ENABLED Aggregate)
  /\ [](pc = "resolved" => ENABLED AfterResolve)
  /\ (pc # "idle") ~> Done

\* measure() has returned after three availability checks and two measure
\* calls, all completed.
C26_Witness ==
  /\ Done
  /\ Cardinality({ p \in 1..Len(log) : log[p].ev = "availEnd" }) >= 3
  /\ Cardinality({ p \in 1..Len(log) : log[p].ev = "measEnd" }) = 2

\* C27: no step of measure() (its call, a continuation after an await, its
\* return) registers or removes an adapter: getRegisteredIds, getAdapter of
\* every id and getAdaptersForAxis of every axis answer after the step what
\* they answered before it.
C27_RegistryReadOnly ==
  [][ pc' # "idle" =>
        /\ getRegisteredIds' = getRegisteredIds
        /\ \A a \in AxisId : getAdaptersForAxis(a)' = getAdaptersForAxis(a)
        /\ \A id \in Range(AllAdapterIds) : getAdapter(id)' = getAdapter(id) ]_vars

\* measure() has returned an error from a registry of two adapters, one of
\* which answered unavailable, after availability checks and a measure call.
C27_Witness ==
  /\ Done
  /\ ~Result.ok
  /\ Len(getRegisteredIds) = 2
  /\ \E i \in 1..Len(adapters) : ~adapters[i].available
  /\ \E p \in 1..Len(log) : log[p].ev = "measEnd"

\* The probing of axis a has finished by position p of the log: its first
\* available candidate has answered, or every candidate has.
ProbingFinishedBy(a, p) ==
  IF HasAvailable(a)
  THEN \E q \in 1..(p - 1) : IsEvent(q, "availEnd", a, FirstAvailable(a).id)
  ELSE \A e \in SupportersOf(a) :
         \E q \in 1..(p - 1) : IsEvent(q, "availEnd", a, adapters[e].id)

\* C28: when an adapter.measure call starts, the probing of every requested
\* axis has finished and no availability check starts or completes later;
\* while axes are being probed no measure call has been made, and a run in
\* which no axis resolved returns without any.
C28_ResolutionBarrier ==
  /\ \A p \in 1..Len(log) :
       log[p].ev = "measStart" =>
         /\ \A a \in Range(requestedAxes) : ProbingFinishedBy(a, p)
         /\ \A q \in (p + 1)..Len(log) : log[q].ev \notin { "availStart", "availEnd" }
  /\ pc \in { "probing", "resolved" } =>
       \A p \in 1..Len(log) : log[p].ev # "measStart"
  /\ (Done /\ Len(resolved) = 0) =>
       \A p \in 1..Len(log) : log[p].ev \notin { "measStart", "measEnd" }

\* Two axes were requested; the first resolved at once, the second through
\* its second candidate, and both measure calls started after the last
\* availability answer.
C28_Witness ==
  /\ pc = "measuring"
  /\ Len(requestedAxes) = 2
  /\ Len(resolved) = 2
  /\ Len(log) = 8
  /\ log[1].ev = "availStart" /\ log[2].ev = "availEnd"
  /\ log[3].ev = "availStart" /\ log[4].ev = "availEnd"
  /\ log[5].ev = "availStart" /\ log[6].ev = "availEnd"
  /\ log[7].ev = "measStart" /\ log[8].ev = "measStart"

\* measure() returned at the early-out: nothing resolved.
EarlyOut == Done /\ Len(resolved) = 0

\* C29: at the early-out the unavailable list is the requested list, which
\* is never empty, and the message names its axes; no run returns the
\* message 'No axes requested and no adapters registered'.
C29_EarlyOutNamesAxes ==
  /\ EarlyOut =>
       /\ ~Result.ok
       /\ unavailable # <<>>
       /\ unavailable = requestedAxes
       /\ requestedAxes = IF Len(config.axes) > 0 THEN config.axes ELSE AXES
       /\ Result.error.message =
            << "No available adapters for requested axes: " >> \o Join(unavailable, ", ")
  /\ (Done /\ ~Result.ok) =>
       Result.error.message # << "No axes requested and no adapters registered" >>

\* measure() was called with no axes listed on an empty registry: the
\* early-out names every axis of the table.
C29_Witness ==
  /\ EarlyOut
  /\ adapters = <<>>
  /\ config.axes = <<>>
  /\ unavailable = AXES
  /\ Len(Result.error.message) > 1

\* How often file occurs in files.
Occurrences(files, file) == Cardinality({ i \in 1..Len(files) : files[i] = file })

\* C30: sortFiles returns a report that differs from its argument only in
\* the order of the files inside each axis: every axis holds each file as
\* often as before, the axes are in the same order with the same fields
\* (axisId, summary, and fileTotalCount where present), and targetPath,
\* timestamp and warnings are the same.
C30_SortFilesOnlyReorders ==
  SortCalled =>
    LET input == tLast[1].input
    IN  /\ DOMAIN tReport = DOMAIN input
        /\ \A f \in DOMAIN input \ { "axes" } : tReport[f] = input[f]
        /\ Len(tReport.axes) = Len(input.axes)
        /\ \A k \in 1..Len(input.axes) :
             LET before == input.axes[k]
                 after == tReport.axes[k]
             IN  /\ DOMAIN after = DOMAIN before
                 /\ \A f \in DOMAIN before \ { "files" } : after[f] = before[f]
                 /\ Len(after.files) = Len(before.files)
                 /\ \A file \in Range(before.files) \cup Range(after.files) :
                      Occurrences(after.files, file) = Occurrences(before.files, file)

\* A report whose first axis was truncated and carries fileTotalCount was
\* sorted, and the order of the files of that axis changed.
C30_Witness ==
  /\ SortCalled
  /\ Len(tLast[1].input.axes) = 2
  /\ "fileTotalCount" \in DOMAIN tLast[1].input.axes[1]
  /\ "fileTotalCount" \in DOMAIN tReport.axes[1]
  /\ "fileTotalCount" \notin DOMAIN tReport.axes[2]
  /\ tReport.axes[1].files # tLast[1].input.axes[1].files

====
